---- MODULE Spec2Model ----
(***************************************************************************)
(* Model of src/merkle_tree.rs: MerkleTree::from_leaves, its helpers       *)
(* build_parent_nodes / as_leaf / as_internal, and MerkleTree::root.       *)
(*                                                                         *)
(* A value of type T is a string, modelled as a sequence of byte codes.    *)
(* A byte stream fed to the Digest is a sequence of items.  An item is     *)
(* either one byte of a value, [b |-> k, pre |-> <<>>] with k >= 1, or the *)
(* hexadecimal text of one digest, [b |-> 0, pre |-> s], where s is the    *)
(* byte stream the digest was computed from.  The digest is therefore      *)
(* collision free: two digests are equal exactly when the absorbed byte    *)
(* streams are equal.                                                      *)
(***************************************************************************)
EXTENDS Integers, Sequences, FiniteSets, TLC

\* Longest input sequence handed to from_leaves.
MaxLen == 5

\* The values of type T the caller may put in the input.
Values == { <<>>, <<1>>, <<2, 1>> }

\* Internal states the Digest instance may be in when it is passed in:
\* fresh, or with bytes already absorbed.
InitialHashers == { <<>>, << [b |-> 7, pre |-> <<>>] >> }

VARIABLES
    values,   \* the caller's Vec<T>, borrowed mutably by from_leaves
    input,    \* the contents of values when from_leaves was called
    hasher,   \* internal state of the Digest instance: the bytes absorbed
    calls,    \* the Digest calls made so far, in order
    levels,   \* length of each `children` handed to build_parent_nodes
    status,   \* "start", or how from_leaves ended: "ok", "err", "panic"
    nodes,    \* MerkleTree.nodes of the returned tree (<<>> if none)
    rootRes   \* result of root() on the returned tree

vars == <<values, input, hasher, calls, levels, status, nodes, rootRes>>

----------------------------------------------------------------------------
(* Option<T> *)
None == [some |-> FALSE, v |-> <<>>]
Some(v) == [some |-> TRUE, v |-> v]

(* AsBytes for String: the bytes of a value *)
AsBytes(v) == [i \in 1..Len(v) |-> [b |-> v[i], pre |-> <<>>]]

(* String::as_bytes on a node's hash: the bytes of the hexadecimal text *)
HashAsBytes(h) == << h >>

(* Digest: reset / input / result_str.  d = [buf, calls]. *)
DigestReset(d) ==
    [buf |-> <<>>,
     calls |-> Append(d.calls, [op |-> "reset", arg |-> <<>>])]

DigestInput(d, bytes) ==
    [buf |-> d.buf \o bytes,
     calls |-> Append(d.calls, [op |-> "input", arg |-> bytes])]

DigestResultStr(d) ==
    [out |-> [b |-> 0, pre |-> d.buf],
     d |-> [buf |-> d.buf,
            calls |-> Append(d.calls, [op |-> "result_str", arg |-> <<>>])]]

----------------------------------------------------------------------------
(* usize::next_power_of_two *)
RECURSIVE PowerOfTwoFrom(_, _)
PowerOfTwoFrom(p, x) == IF p >= x THEN p ELSE PowerOfTwoFrom(2 * p, x)

NextPowerOfTwoStrict(x) == PowerOfTwoFrom(1, x + 1)

NextPowerOfTwo(x) == PowerOfTwoFrom(1, x)

(* from_leaves, lines 53-60: pad values with clones of its last element *)
PadValuesWithFirst(vs) ==
    LET n == NextPowerOfTwo(Len(vs)) IN
    IF Len(vs) < n
    THEN vs \o [i \in 1..(n - Len(vs)) |-> vs[1]]
    ELSE vs

PadValuesTooMany(vs) ==
    LET n == NextPowerOfTwo(Len(vs)) IN
    IF Len(vs) < n
    THEN vs \o [i \in 1..n |-> vs[Len(vs)]]
    ELSE vs

PadValues(vs) ==
    LET n == NextPowerOfTwo(Len(vs)) IN
    IF Len(vs) < n
    THEN LET pad_by == NextPowerOfTwo(Len(vs)) - Len(vs) IN
         IF Len(vs) > 0
         THEN vs \o [i \in 1..pad_by |-> vs[Len(vs)]]
         ELSE vs
    ELSE vs

(* as_leaf *)
AsLeafNoReset(v, d) ==
    LET d2 == DigestInput(d, AsBytes(v))
        r  == DigestResultStr(d2)
    IN [node |-> [value |-> Some(v), hash |-> r.out], d |-> r.d]

AsLeaf(v, d) ==
    LET d1 == DigestReset(d)
        d2 == DigestInput(d1, AsBytes(v))
        r  == DigestResultStr(d2)
    IN [node |-> [value |-> Some(v), hash |-> r.out], d |-> r.d]

(* as_internal *)
AsInternalSwapped(left, right, d) ==
    LET d1 == DigestReset(d)
        d2 == DigestInput(d1, HashAsBytes(right.hash))
        d3 == DigestInput(d2, HashAsBytes(left.hash))
        r  == DigestResultStr(d3)
    IN [node |-> [value |-> None, hash |-> r.out], d |-> r.d]

AsInternalLeftTwice(left, right, d) ==
    LET d1 == DigestReset(d)
        d2 == DigestInput(d1, HashAsBytes(left.hash))
        d3 == DigestInput(d2, HashAsBytes(left.hash))
        r  == DigestResultStr(d3)
    IN [node |-> [value |-> None, hash |-> r.out], d |-> r.d]

AsInternal(left, right, d) ==
    LET d1 == DigestReset(d)
        d2 == DigestInput(d1, HashAsBytes(left.hash))
        d3 == DigestInput(d2, HashAsBytes(right.hash))
        r  == DigestResultStr(d3)
    IN [node |-> [value |-> None, hash |-> r.out], d |-> r.d]

(* from_leaves, lines 62-66: one leaf per value, in order *)
RECURSIVE LeafLoop(_, _, _, _)
LeafLoop(vs, i, acc, d) ==
    IF i > Len(vs)
    THEN [nodes |-> acc, d |-> d]
    ELSE LET r == AsLeaf(vs[i], d)
         IN LeafLoop(vs, i + 1, Append(acc, r.node), r.d)

(* build_parent_nodes, lines 81-86: the loop over chunks(2).  The chunk   *)
(* starting at i holds children[i] and, if it exists, children[i+1];      *)
(* pairs[1] on a chunk of one element is an out-of-bounds index: a panic. *)
RECURSIVE ChunkLoop(_, _, _, _)
ChunkLoop(children, i, parent_nodes, d) ==
    IF i > Len(children)
    THEN [panic |-> FALSE, nodes |-> parent_nodes, d |-> d]
    ELSE IF i + 1 > Len(children)
    THEN [panic |-> TRUE, nodes |-> parent_nodes, d |-> d]
    ELSE LET r == AsInternal(children[i], children[i + 1], d)
         IN ChunkLoop(children, i + 2, Append(parent_nodes, r.node), r.d)

(* build_parent_nodes *)
RECURSIVE BuildParentNodes(_, _, _)
BuildParentNodes(children, d, lv) ==
    LET lv1 == Append(lv, Len(children))
        c   == ChunkLoop(children, 1, <<>>, d)
    IN IF c.panic
       THEN [panic |-> TRUE, nodes |-> <<>>, d |-> c.d, levels |-> lv1]
       ELSE IF Len(c.nodes) > 1
       THEN LET up == BuildParentNodes(c.nodes, c.d, lv1)
            IN [panic |-> up.panic, nodes |-> c.nodes \o up.nodes,
                d |-> up.d, levels |-> up.levels]
       ELSE [panic |-> FALSE, nodes |-> c.nodes, d |-> c.d, levels |-> lv1]

(* from_leaves, lines 53-75: everything after the empty check *)
FromLeavesBody(vs, d) ==
    LET padded == PadValues(vs)
        lf     == LeafLoop(padded, 1, <<>>, d)
        par    == BuildParentNodes(lf.nodes, lf.d, <<>>)
    IN IF par.panic
       THEN [status |-> "panic", values |-> padded, nodes |-> <<>>,
             d |-> par.d, levels |-> par.levels]
       ELSE [status |-> "ok", values |-> padded,
             nodes |-> lf.nodes \o par.nodes,
             d |-> par.d, levels |-> par.levels]

(* from_leaves *)
FromLeavesNoCheck(vs, d) == FromLeavesBody(vs, d)

FromLeavesOp(vs, d) ==
    IF Len(vs) = 0
    THEN [status |-> "err", values |-> vs, nodes |-> <<>>,
          d |-> d, levels |-> <<>>]
    ELSE FromLeavesBody(vs, d)

(* root *)
RootFirst(ns) ==
    IF Len(ns) = 0
    THEN [tag |-> "Err", node |-> [value |-> None, hash |-> [b |-> 0, pre |-> <<>>]]]
    ELSE [tag |-> "Ok", node |-> ns[1]]

RootOp(ns) ==
    IF Len(ns) = 0
    THEN [tag |-> "Err", node |-> [value |-> None, hash |-> [b |-> 0, pre |-> <<>>]]]
    ELSE [tag |-> "Ok", node |-> ns[Len(ns)]]

NoRoot == [tag |-> "none", node |-> [value |-> None, hash |-> [b |-> 0, pre |-> <<>>]]]

----------------------------------------------------------------------------
Init ==
    /\ values \in UNION { [1..k -> Values] : k \in 0..MaxLen }
    /\ input = values
    /\ hasher \in InitialHashers
    /\ calls = <<>>
    /\ levels = <<>>
    /\ status = "start"
    /\ nodes = <<>>
    /\ rootRes = NoRoot

(* The caller runs MerkleTree::from_leaves(&mut values, hasher). *)
FromLeaves ==
    /\ status = "start"
    /\ LET r == FromLeavesOp(values, [buf |-> hasher, calls |-> <<>>])
       IN /\ status' = r.status
          /\ values' = r.values
          /\ nodes' = r.nodes
          /\ hasher' = r.d.buf
          /\ calls' = r.d.calls
          /\ levels' = r.levels
    /\ UNCHANGED <<input, rootRes>>

(* The caller runs mt.root() on the tree from_leaves returned. *)
Root ==
    /\ status = "ok"
    /\ rootRes.tag = "none"
    /\ rootRes' = RootOp(nodes)
    /\ UNCHANGED <<values, input, hasher, calls, levels, status, nodes>>

Next == FromLeaves \/ Root

Spec == Init /\ [][Next]_vars

----------------------------------------------------------------------------
(* Vocabulary of the properties *)

IsPowerOfTwo(p) == \E k \in 0..p : 2^k = p

\* Smallest power of two >= L, for L >= 1.
SmallestPowerOfTwoAtLeast(L) ==
    CHOOSE p \in 1..(2 * L) :
        /\ IsPowerOfTwo(p)
        /\ p >= L
        /\ \A q \in 1..(p - 1) : ~(IsPowerOfTwo(q) /\ q >= L)

\* The input followed by copies of its last element up to a power of two.
PaddedInput ==
    LET L == Len(input)
    IN input \o [i \in 1..(SmallestPowerOfTwoAtLeast(L) - L) |-> input[L]]

\* The digest of a byte stream.
H(bytes) == [b |-> 0, pre |-> bytes]

\* s with the elements at positions i and j exchanged.
Swap(s, i, j) ==
    [k \in 1..Len(s) |-> IF k = i THEN s[j] ELSE IF k = j THEN s[i] ELSE s[k]]

Called == status # "start"

\* C1: for every non-empty input of length L, from_leaves returns a tree
\* whose node store holds exactly 2*next_pow2(L) - 1 nodes.
C1_NodeCount ==
    (Called /\ Len(input) >= 1) =>
        /\ status = "ok"
        /\ Len(nodes) = 2 * SmallestPowerOfTwoAtLeast(Len(input)) - 1

\* C2: for every non-empty input, every level handed to
\* build_parent_nodes has even length and from_leaves returns a tree
\* rather than aborting.
C2_NeverAborts ==
    (Called /\ Len(input) >= 1) =>
        /\ \A k \in 1..Len(levels) : levels[k] % 2 = 0
        /\ status # "panic"

\* C3: from_leaves on an empty sequence returns the error, no tree, leaves
\* the sequence empty and never touches the hasher; it returns the error
\* only for an empty input.
C3_EmptyInput ==
    /\ (Called /\ input = <<>>) =>
          /\ status = "err"
          /\ values = <<>>
          /\ nodes = <<>>
          /\ calls = <<>>
          /\ hasher \in InitialHashers
    /\ status = "err" => input = <<>>

C3_Witness == status = "err" /\ Len(hasher) = 1

\* C4: in a returned tree with n leaves, the store has 2n-1 nodes and the
\* node at index p, n <= p < 2n-1 (counting from 0), is an internal node
\* whose hash is H(nodes[2(p-n)].hash || nodes[2(p-n)+1].hash).
C4_LevelOrder ==
    status = "ok" =>
        LET n == Len(values) IN
        /\ Len(nodes) = 2 * n - 1
        /\ \A p \in n..(2 * n - 2) :
              /\ nodes[p + 1].value = None
              /\ nodes[p + 1].hash =
                    H(HashAsBytes(nodes[2 * (p - n) + 1].hash)
                      \o HashAsBytes(nodes[2 * (p - n) + 2].hash))

C4_Witness ==
    /\ status = "ok"
    /\ Len(nodes) = 15
    /\ nodes[9].hash # nodes[10].hash
    /\ nodes[1].hash # nodes[2].hash

\* C5: leaf i < L holds input[i]; leaf i with L <= i < n holds a copy of
\* the last input element; every leaf's hash is H(bytes of its value);
\* when L is a power of two there is no padded leaf.
C5_Leaves ==
    status = "ok" =>
        LET L == Len(input)
            n == SmallestPowerOfTwoAtLeast(L)
        IN /\ Len(nodes) >= n
           /\ \A i \in 1..L : nodes[i].value = Some(input[i])
           /\ \A i \in (L + 1)..n : nodes[i].value = Some(input[L])
           /\ \A i \in 1..n : nodes[i].hash = H(AsBytes(nodes[i].value.v))
           /\ IsPowerOfTwo(L) => Len(values) = L

C5_Witness ==
    /\ status = "ok"
    /\ Len(input) = 5
    /\ input[1] # input[5]
    /\ input[4] # input[5]

\* C6: root() returns the last node of the store and fails only on an empty
\* store; on a returned tree it succeeds with a node that has no value, and
\* exactly the first n nodes have a value.
C6_Root ==
    /\ rootRes.tag = "Err" => Len(nodes) = 0
    /\ rootRes.tag # "none" =>
          /\ rootRes.tag = "Ok"
          /\ rootRes.node = nodes[Len(nodes)]
          /\ rootRes.node.value = None
    /\ status = "ok" =>
          \A i \in 1..Len(nodes) : nodes[i].value.some <=> i <= Len(values)

C6_Witness == rootRes.tag = "Ok" /\ Len(nodes) >= 3

\* C7: swapping two different values of the input changes the root hash.
C7_NonCommutative ==
    status = "ok" =>
        \A i, j \in 1..Len(input) :
            (i # j /\ input[i] # input[j]) =>
                \A h \in InitialHashers :
                    LET r == FromLeavesOp(Swap(input, i, j),
                                          [buf |-> h, calls |-> <<>>])
                    IN /\ r.status = "ok"
                       /\ r.nodes[Len(r.nodes)].hash # nodes[Len(nodes)].hash

C7_Witness ==
    /\ status = "ok"
    /\ Len(input) = 5
    /\ input[2] # input[5]
    /\ input[1] = input[5]

\* C8: after a call on a sequence of length L >= 1 the sequence holds its L
\* original elements, in order, followed by exactly next_pow2(L) - L copies
\* of its original last element.
C8_OnlyPadding ==
    (Called /\ Len(input) >= 1) =>
        /\ values = PaddedInput
        /\ IsPowerOfTwo(Len(input)) => values = input

C8_Witness ==
    /\ Called
    /\ Len(input) = 3
    /\ Len(values) = 4
    /\ input[1] # input[3]

\* C9: the Digest calls of one from_leaves call are reset-absorb-finalize
\* cycles: one per leaf absorbing the value's bytes, then one per internal
\* node absorbing the left child's hash and then the right child's hash;
\* and the node hashes do not depend on the state the hasher came in with.
C9_HasherCycles ==
    (Called /\ Len(input) >= 1) =>
        LET n == Len(values)
            m == Len(nodes) - n
            inner == IF m > 0 THEN m ELSE 0
        IN /\ Len(calls) = 3 * n + 4 * inner
           /\ \A k \in 1..n :
                 /\ calls[3 * k - 2] = [op |-> "reset", arg |-> <<>>]
                 /\ calls[3 * k - 1] = [op |-> "input", arg |-> AsBytes(values[k])]
                 /\ calls[3 * k] = [op |-> "result_str", arg |-> <<>>]
           /\ \A p \in 1..inner :
                 LET base == 3 * n + 4 * (p - 1) IN
                 /\ calls[base + 1] = [op |-> "reset", arg |-> <<>>]
                 /\ calls[base + 2] =
                       [op |-> "input", arg |-> HashAsBytes(nodes[2 * p - 1].hash)]
                 /\ calls[base + 3] =
                       [op |-> "input", arg |-> HashAsBytes(nodes[2 * p].hash)]
                 /\ calls[base + 4] = [op |-> "result_str", arg |-> <<>>]
           /\ \A h \in InitialHashers :
                 FromLeavesOp(input, [buf |-> h, calls |-> <<>>]).nodes = nodes

C9_Witness == status = "ok" /\ Len(calls) = 3 * 4 + 4 * 3

\* C10: for an input whose length is not a power of two, from_leaves on the
\* input and from_leaves on the input already padded with copies of its
\* last element produce the same node store.
C10_PaddingTransparent ==
    (status = "ok" /\ ~IsPowerOfTwo(Len(input))) =>
        \A h \in InitialHashers :
            LET r == FromLeavesOp(PaddedInput, [buf |-> h, calls |-> <<>>])
            IN /\ r.status = "ok"
               /\ r.nodes = nodes
               /\ PaddedInput # input

C10_Witness ==
    /\ status = "ok"
    /\ Len(input) = 3
    /\ Len(nodes) = 7
    /\ input[2] # input[3]

====
